---- MODULE Spec2Model ----
(***************************************************************************)
(* Model of the ajou-lunch menu pipeline and its notification scheduler.   *)
(*                                                                         *)
(*   src/scheduler.py     MenuScheduler on top of an APScheduler 3.x       *)
(*                        BackgroundScheduler with its default in-memory   *)
(*                        job store                                        *)
(*   src/menu_scraper.py  fetch / normalise / aggregate / format           *)
(*                                                                         *)
(* Time is counted in ticks of the configured timezone's wall clock.  A    *)
(* minute holds SubTicks ticks; tick 0 of a minute is the instant h:m:00   *)
(* with no fraction, the other ticks are instants inside that minute.      *)
(***************************************************************************)
EXTENDS Integers, Sequences, FiniteSets, TLC

VARIABLES
    (* ---- MenuScheduler / BackgroundScheduler ---- *)
    running,        \* scheduler.running  (state /= STATE_STOPPED)
    pending_jobs,   \* scheduler._pending_jobs: jobs added while stopped
    jobstore,       \* jobs of the default MemoryJobStore
    hour,           \* self.hour
    minute,         \* self.minute
    now,            \* wall clock of the configured timezone, in ticks
    pc,             \* position of the caller inside update_schedule
    upd,            \* arguments and pre-call snapshot of the call in progress
    ret,            \* outcome of the last completed caller operation
    instances,      \* running instances of the job in the executor
    fired,          \* scheduled firings processed so far
    last_run,       \* record of the last completed _send_daily_menu run
    (* ---- one format_menu_for_kakao call ---- *)
    fmt_pc,         \* position inside format_menu_for_kakao
    date_str,       \* date argument of the call
    upstream,       \* per source: what the upstream GET and parse will do
    task,           \* per source: state of its pool task
    gets,           \* per source: HTTP GETs issued
    results,        \* per source: value returned by get_restaurant_meals
    all_menus,      \* value returned by fetch_ajou_meals
    escaped,        \* exception that left fetch_ajou_meals, or "none"
    message,        \* outcome of format_menu_for_kakao: its string, or the
                    \* exception that left it
    done_order,     \* sources in the order in which their tasks finished
    prev,           \* date, outcome and escaped exception of the call before
    (* ---- clean_menu_text and the rendering of one cell ---- *)
    text_pc,        \* position: "raw", "cleaned" or "rendered"
    raw,            \* text handed to clean_menu_text
    cleaned,        \* text returned by clean_menu_text
    cell_in,        \* cell text handed to the formatter
    cell_out        \* text rendered for that cell

schedVars == <<running, pending_jobs, jobstore, hour, minute, now, pc, upd,
               ret, instances, fired, last_run>>
menuVars  == <<fmt_pc, date_str, upstream, task, gets, results, all_menus,
               escaped, message, done_order, prev>>
textVars  == <<text_pc, raw, cleaned, cell_in, cell_out>>
vars      == <<running, pending_jobs, jobstore, hour, minute, now, pc, upd,
               ret, instances, fired, last_run,
               fmt_pc, date_str, upstream, task, gets, results, all_menus,
               escaped, message, done_order, prev,
               text_pc, raw, cleaned, cell_in, cell_out>>

(***************************************************************************)
(* Bounds                                                                  *)
(***************************************************************************)
SubTicks == 2       \* instants distinguished inside one minute
MaxDays  == 2       \* days the wall clock runs through
MaxFired == 2       \* scheduled firings followed

(***************************************************************************)
(* Wall clock                                                              *)
(***************************************************************************)
TicksPerMinute == SubTicks
TicksPerDay    == 24 * 60 * TicksPerMinute

Instant(d, h, m, s) == d * TicksPerDay + (h * 60 + m) * TicksPerMinute + s

\* the instants at which the model looks at the system
ClockHours    == {9, 12}
ClockMinutes  == {0, 30}
ClockInstants == { Instant(d, h, m, s) : d \in 0..(MaxDays - 1),
                   h \in ClockHours, m \in ClockMinutes,
                   s \in 0..(SubTicks - 1) }
\* the instants at which the process may be started
StartInstants == { Instant(0, 9, 0, 1), Instant(0, 9, 30, 0) }

\* arguments tried for update_schedule(hour, minute)
ArgHours   == {9, 12, 25}
ArgMinutes == {30, 60}

(***************************************************************************)
(* CronTrigger(hour=h, minute=m, timezone=tz)                              *)
(***************************************************************************)
\* the constructor raises ValueError for a value outside the field's range
CronTriggerRaises(h, m) == ~(h \in 0..23 /\ m \in 0..59)

\* get_next_fire_time(None, from): the first h:m:00 instant at or after from
get_next_fire_time(h, m, from) ==
    LET c == (from - (from % TicksPerDay)) + Instant(0, h, m, 0)
    IN  IF c >= from THEN c ELSE c + TicksPerDay

(***************************************************************************)
(* BackgroundScheduler: add_job / remove_job / get_job / start / shutdown  *)
(***************************************************************************)
JobId == "daily_menu_notification"

PendingJob(id, h, m)   == [id |-> id, hour |-> h, minute |-> m]
StoredJob(id, h, m, t) == [id |-> id, hour |-> h, minute |-> m,
                           next_run_time |-> t]

\* index of the first pending job with this id, 0 when there is none
FirstPending(pend, id) ==
    IF \E i \in 1..Len(pend) : pend[i].id = id
    THEN CHOOSE i \in 1..Len(pend) :
            /\ pend[i].id = id
            /\ \A k \in 1..(i - 1) : pend[k].id /= id
    ELSE 0

DeleteAt(seq, i) == SubSeq(seq, 1, i - 1) \o SubSeq(seq, i + 1, Len(seq))

\* _real_add_job(job, replace_existing=True) into the memory job store
real_add_job(store, job, t) ==
    { j \in store : j.id /= job.id }
        \cup { StoredJob(job.id, job.hour, job.minute,
                         get_next_fire_time(job.hour, job.minute, t)) }

RECURSIVE real_add_all(_, _, _)
real_add_all(store, pend, t) ==
    IF pend = << >> THEN store
    ELSE real_add_all(real_add_job(store, Head(pend), t), Tail(pend), t)

\* remove_job(id) raises JobLookupError when no such job is found
remove_job_raises(isRunning, pend, store, id) ==
    IF isRunning THEN ~(\E j \in store : j.id = id)
    ELSE FirstPending(pend, id) = 0

\* add_job(..., id=id, replace_existing=True); the scheduler state after it
add_job(isRunning, pend, store, id, h, m, t) ==
    IF isRunning
    THEN [pending |-> pend,
          store   |-> real_add_job(store, PendingJob(id, h, m), t)]
    ELSE [pending |-> Append(pend, PendingJob(id, h, m)),
          store   |-> store]

\* variant: the job is left where it is
remove_job_keep(isRunning, pend, store, id) ==
    [pending |-> pend, store |-> store]

\* remove_job(id) when it does not raise; the scheduler state after it
remove_job(isRunning, pend, store, id) ==
    IF isRunning
    THEN [pending |-> pend, store |-> { j \in store : j.id /= id }]
    ELSE [pending |-> DeleteAt(pend, FirstPending(pend, id)),
          store   |-> store]

\* the time-of-day of every trigger registered under the job id
Triggers(pend, store) ==
    { [hour |-> j.hour, minute |-> j.minute] : j \in store }
        \cup { [hour |-> pend[i].hour, minute |-> pend[i].minute] :
               i \in 1..Len(pend) }

\* number of registered triggers, pending ones included
TriggerCount == Cardinality(jobstore) + Len(pending_jobs)

(***************************************************************************)
(* MenuScheduler.__init__                                                  *)
(***************************************************************************)
\* NOTIFICATION_TIME after split(':'); the first is the default '12:00'
NotificationTimes ==
    { <<"12", "00">>, <<"09", "30">>, <<"noon">>, <<"12", "00", "00">>,
      <<"12", "xx">>, <<"25", "00">> }

\* int(s) for the strings that are integer literals
IntOf == [s \in {"12", "00", "09", "30", "25"} |->
            CASE s = "12" -> 12 [] s = "00" -> 0
              [] s = "09" -> 9  [] s = "30" -> 30
              [] s = "25" -> 25]

\* hour, minute = map(int, parts), falling back to 12:00 on ValueError
ParseNotificationTime(parts) ==
    IF Len(parts) = 2 /\ \A i \in 1..2 : parts[i] \in DOMAIN IntOf
    THEN [hour |-> IntOf[parts[1]], minute |-> IntOf[parts[2]]]
    ELSE [hour |-> 12, minute |-> 0]

NoRun == [via |-> "none", token |-> "none", post |-> "none",
          raised |-> "none", posted |-> FALSE, log |-> "none"]
NoPre  == [hour |-> 0, minute |-> 0, triggers |-> {}]
NoCall == [hour |-> 0, minute |-> 0, pre |-> NoPre]

SchedInit ==
    \E parts \in NotificationTimes, t \in StartInstants :
        LET cfg == ParseNotificationTime(parts) IN
        \* line 36: a time CronTrigger rejects raises ValueError out of
        \* __init__, and no scheduler comes to exist
        /\ ~CronTriggerRaises(cfg.hour, cfg.minute)
        /\ running = FALSE
        /\ hour = cfg.hour
        /\ minute = cfg.minute
        \* _setup_jobs: add_job on a scheduler that was never started
        /\ pending_jobs = add_job(FALSE, << >>, {}, JobId,
                                  cfg.hour, cfg.minute, t).pending
        /\ jobstore = {}
        /\ now = t
        /\ pc = "idle"
        /\ upd = NoCall
        /\ ret = "none"
        /\ instances = 0
        /\ fired = 0
        /\ last_run = NoRun

(***************************************************************************)
(* MenuScheduler._send_daily_menu                                          *)
(***************************************************************************)
\* what open('.access_token') does
TokenOutcomes == {"present", "FileNotFoundError", "PermissionError"}
\* what requests.post / response.json() / status_code do
PostOutcomes  == {"200", "401", "ConnectionError", "JSONDecodeError"}
\* the environments of one run: the POST is reached only with a token
RunOutcomes ==
    { [token |-> "present", post |-> p] : p \in PostOutcomes }
        \cup { [token |-> t, post |-> "none"] :
                t \in TokenOutcomes \ {"present"} }

\* lines 60-92: the body of the innermost try
send_body(token, post) ==
    IF token /= "present"
    THEN [exc |-> token, posted |-> FALSE, log |-> "none"]
    ELSE CASE post = "ConnectionError" ->
                [exc |-> post, posted |-> TRUE, log |-> "none"]
           [] post = "JSONDecodeError" ->
                [exc |-> post, posted |-> TRUE, log |-> "none"]
           [] post = "200" ->
                [exc |-> "none", posted |-> TRUE, log |-> "info: sent"]
           [] OTHER ->
                [exc |-> "none", posted |-> TRUE, log |-> "error: send failed"]

\* line 94: except FileNotFoundError
except_FileNotFoundError(r) ==
    IF r.exc = "FileNotFoundError"
    THEN [r EXCEPT !.exc = "none", !.log = "warning: no access token"]
    ELSE r

\* variant: only the network errors of requests are caught
except_Exception_network(r, text) ==
    IF r.exc = "ConnectionError"
    THEN [r EXCEPT !.exc = "none", !.log = text]
    ELSE r

\* lines 97 and 100: except Exception
except_Exception(r, text) ==
    IF r.exc /= "none"
    THEN [r EXCEPT !.exc = "none", !.log = text]
    ELSE r

\* variant: the body without any handler
send_daily_menu_bare(token, post) == send_body(token, post)

\* the whole job function: exception that leaves it, POST issued, log line
send_daily_menu(token, post) ==
    except_Exception(
        except_Exception(
            except_FileNotFoundError(send_body(token, post)),
            "error: message send error"),
        "error: daily menu send error")

RunRecord(via, token, post) ==
    LET r == send_daily_menu(token, post) IN
    [via |-> via, token |-> token, post |-> post,
     raised |-> r.exc, posted |-> r.posted, log |-> r.log]

(***************************************************************************)
(* MenuScheduler operations                                                *)
(***************************************************************************)
is_running == running

\* get_next_run_time(): get_job(id) finds a stored or a pending job; a
\* pending job has no next_run_time attribute yet
get_next_run_time ==
    IF running
    THEN IF \E j \in jobstore : j.id = JobId
         THEN [kind |-> "time",
               t |-> (CHOOSE j \in jobstore : j.id = JobId).next_run_time]
         ELSE [kind |-> "None", t |-> 0]
    ELSE IF FirstPending(pending_jobs, JobId) /= 0
         THEN [kind |-> "AttributeError", t |-> 0]
         ELSE [kind |-> "None", t |-> 0]

\* variant: scheduler.start() without looking at scheduler.running, which
\* raises SchedulerAlreadyRunningError on a running scheduler
start_unguarded ==
    /\ pc = "idle"
    /\ IF ~running
       THEN /\ running' = TRUE
            /\ jobstore' = real_add_all(jobstore, pending_jobs, now)
            /\ pending_jobs' = << >>
            /\ ret' = "None"
       ELSE /\ ret' = "raised"
            /\ UNCHANGED <<running, jobstore, pending_jobs>>
    /\ UNCHANGED <<hour, minute, now, pc, upd, instances, fired, last_run>>

\* start()
start ==
    /\ pc = "idle"
    /\ IF ~running
       THEN /\ running' = TRUE
            /\ jobstore' = real_add_all(jobstore, pending_jobs, now)
            /\ pending_jobs' = << >>
       ELSE UNCHANGED <<running, jobstore, pending_jobs>>
    /\ ret' = "None"
    /\ UNCHANGED <<hour, minute, now, pc, upd, instances, fired, last_run>>

\* stop(): shutdown(wait=True) returns once no job instance is running, and
\* shuts the memory job store down, which drops its jobs
stop ==
    /\ pc = "idle"
    /\ IF running
       THEN /\ instances = 0
            /\ running' = FALSE
            /\ jobstore' = {}
       ELSE UNCHANGED <<running, jobstore>>
    /\ ret' = "None"
    /\ UNCHANGED <<pending_jobs, hour, minute, now, pc, upd, instances,
                   fired, last_run>>

\* update_schedule(h, m), lines 137-139: remove_job
update_schedule_remove(h, m) ==
    /\ pc = "idle"
    /\ IF remove_job_raises(running, pending_jobs, jobstore, JobId)
       THEN \* JobLookupError, caught at line 160
            /\ ret' = "False"
            /\ UNCHANGED <<pending_jobs, jobstore, pc, upd>>
       ELSE LET s == remove_job(running, pending_jobs, jobstore, JobId) IN
            /\ pending_jobs' = s.pending
            /\ jobstore' = s.store
            /\ pc' = "removed"
            /\ upd' = [hour |-> h, minute |-> m,
                       pre |-> [hour |-> hour, minute |-> minute,
                                triggers |-> Triggers(pending_jobs, jobstore)]]
            /\ ret' = "none"
    /\ UNCHANGED <<running, hour, minute, now, instances, fired, last_run>>

\* update_schedule(h, m), lines 142-162: store the time, add the new job
update_schedule_add ==
    /\ pc = "removed"
    /\ hour' = upd.hour
    /\ minute' = upd.minute
    /\ IF CronTriggerRaises(upd.hour, upd.minute)
       THEN \* ValueError, caught at line 160
            /\ ret' = "False"
            /\ UNCHANGED <<pending_jobs, jobstore>>
       ELSE LET s == add_job(running, pending_jobs, jobstore, JobId,
                             upd.hour, upd.minute, now) IN
            /\ pending_jobs' = s.pending
            /\ jobstore' = s.store
            /\ ret' = "True"
    /\ pc' = "idle"
    /\ UNCHANGED <<running, now, upd, instances, fired, last_run>>

\* send_test_menu(): the job function called on the caller's thread
send_test_menu(token, post) ==
    /\ pc = "idle"
    /\ last_run' = RunRecord("test", token, post)
    /\ ret' = IF last_run'.raised = "none" THEN "None" ELSE "raised"
    /\ UNCHANGED <<running, pending_jobs, jobstore, hour, minute, now, pc,
                   upd, instances, fired>>

(***************************************************************************)
(* The scheduler's own thread and its executor                             *)
(***************************************************************************)
DueJobs == { j \in jobstore : j.next_run_time <= now }

\* _process_jobs: submit every due job (max_instances is 1) and move its
\* next_run_time to the first fire time after the one just processed
process_jobs ==
    /\ running
    /\ DueJobs /= {}
    /\ fired < MaxFired
    /\ fired' = fired + 1
    /\ instances' = IF instances < 1 THEN instances + 1 ELSE instances
    /\ jobstore' = { IF j \in DueJobs
                     THEN [j EXCEPT !.next_run_time =
                             get_next_fire_time(j.hour, j.minute,
                                                j.next_run_time + 1)]
                     ELSE j : j \in jobstore }
    /\ UNCHANGED <<running, pending_jobs, hour, minute, now, pc, upd, ret,
                   last_run>>

\* the executor runs the submitted job function to its end
run_job(token, post) ==
    /\ instances > 0
    /\ instances' = instances - 1
    /\ last_run' = RunRecord("job", token, post)
    /\ UNCHANGED <<running, pending_jobs, jobstore, hour, minute, now, pc,
                   upd, ret, fired>>

\* the wall clock moves on; a running scheduler wakes at each next_run_time,
\* so the clock does not pass a due job before it is processed
clock(t) ==
    /\ t \in ClockInstants
    /\ t > now
    /\ running => \A j \in jobstore : now < j.next_run_time
                                      /\ t <= j.next_run_time
    /\ now' = t
    /\ UNCHANGED <<running, pending_jobs, jobstore, hour, minute, pc, upd,
                   ret, instances, fired, last_run>>

(***************************************************************************)
(* Text.  A string is a sequence of characters; a character is written as  *)
(* an ASCII token (a Hangul syllable by its romanisation).                 *)
(*   LF  line feed        REF  ※        STAR  ★        BOX  ─              *)
(***************************************************************************)
LF == "LF"
SP == " "

\* str.isspace for the characters that occur
IsSpace(c) == c \in {SP, LF, "TAB"}

\* s[i..] starts with lit
StartsAt(s, i, lit) ==
    /\ i + Len(lit) - 1 <= Len(s)
    /\ \A k \in 1..Len(lit) : s[i + k - 1] = lit[k]

\* lit occurs in s
Contains(s, lit) == \E i \in 1..(Len(s) + 1) : StartsAt(s, i, lit)

\* least index >= i at which lit starts, 0 when there is none
Find(s, i, lit) ==
    IF \E j \in i..(Len(s) + 1) : StartsAt(s, j, lit)
    THEN CHOOSE j \in i..(Len(s) + 1) :
            /\ StartsAt(s, j, lit)
            /\ \A k \in i..(j - 1) : ~StartsAt(s, k, lit)
    ELSE 0

\* str.strip()
Strip(s) ==
    IF \A i \in 1..Len(s) : IsSpace(s[i]) THEN << >>
    ELSE LET a == CHOOSE i \in 1..Len(s) :
                     ~IsSpace(s[i]) /\ \A k \in 1..(i - 1) : IsSpace(s[k])
             b == CHOOSE i \in 1..Len(s) :
                     ~IsSpace(s[i]) /\ \A k \in (i + 1)..Len(s) : IsSpace(s[k])
         IN  SubSeq(s, a, b)

\* str.split(sep) for a one-character separator
RECURSIVE Split(_, _)
Split(s, sep) ==
    LET j == Find(s, 1, <<sep>>) IN
    IF j = 0 \/ j > Len(s) THEN <<s>>
    ELSE <<SubSeq(s, 1, j - 1)>> \o Split(SubSeq(s, j + 1, Len(s)), sep)

\* sep.join(parts)
RECURSIVE Join(_, _)
Join(parts, sep) ==
    IF parts = << >> THEN << >>
    ELSE IF Len(parts) = 1 THEN parts[1]
    ELSE parts[1] \o sep \o Join(Tail(parts), sep)

\* c * n
RECURSIVE Repeat(_, _)
Repeat(c, n) == IF n <= 0 THEN << >> ELSE <<c>> \o Repeat(c, n - 1)

(***************************************************************************)
(* clean_menu_text                                                         *)
(***************************************************************************)
\* variant: the list without the pattern of the bracketed notices
patterns_to_remove_unbracketed ==
    << [A |-> <<"-">>, B |-> <<"un", "yeong">>],
       [A |-> <<"*">>, B |-> <<"un", "yeong">>],
       [A |-> <<"REF">>, B |-> << >>],
       [A |-> <<"<">>, B |-> <<"won", ">">>],
       [A |-> <<"STAR">>, B |-> <<"STAR">>],
       [A |-> <<"hu", "sik", "eum", "ryo", ":">>, B |-> << >>] >>

\* the patterns A.*?B.*?(?=\n|\Z) of patterns_to_remove, in order; B is
\* empty for the patterns with a single literal
patterns_to_remove ==
    << [A |-> <<"[">>, B |-> <<"an", "nae", "]">>],        \* \[.*?안내\]
       [A |-> <<"-">>, B |-> <<"un", "yeong">>],           \* -.*?운영
       [A |-> <<"*">>, B |-> <<"un", "yeong">>],           \* \*.*?운영
       [A |-> <<"REF">>, B |-> << >>],                     \* ※
       [A |-> <<"<">>, B |-> <<"won", ">">>],              \* <.*?원>
       [A |-> <<"STAR">>, B |-> <<"STAR">>],               \* ★.*?★
       [A |-> <<"hu", "sik", "eum", "ryo", ":">>, B |-> << >>] >> \* 후식음료:

\* end (exclusive) of the match of pattern p that starts at i, 0 when the
\* pattern does not match at i.  With re.DOTALL the lazy .*? between A and B
\* runs across line feeds; the trailing .*? stops before the next line feed
MatchEnd(s, i, p) ==
    IF ~StartsAt(s, i, p.A) THEN 0
    ELSE LET j == Find(s, i + Len(p.A), p.B) IN
         IF j = 0 THEN 0
         ELSE LET e == j + Len(p.B)
                  n == Find(s, e, <<LF>>)
              IN  IF n = 0 THEN Len(s) + 1 ELSE n

\* re.sub(pattern, '', s): leftmost non-overlapping matches, from pos on
RECURSIVE SubFrom(_, _, _)
SubFrom(s, pos, p) ==
    IF pos > Len(s) THEN << >>
    ELSE LET e == MatchEnd(s, pos, p) IN
         IF e = 0 THEN <<s[pos]>> \o SubFrom(s, pos + 1, p)
         ELSE SubFrom(s, e, p)

RECURSIVE RemoveAll(_, _)
RemoveAll(s, k) ==
    IF k > Len(patterns_to_remove) THEN s
    ELSE RemoveAll(SubFrom(s, 1, patterns_to_remove[k]), k + 1)

\* end (inclusive) of the match of \n\s*\n+ that starts at i, 0 when none:
\* the last line feed of the whitespace run that follows s[i]
BlankEnd(s, i) ==
    IF s[i] /= LF THEN 0
    ELSE LET run == { e \in (i + 1)..Len(s) :
                        \A k \in (i + 1)..e : IsSpace(s[k]) }
             lfs == { e \in run : s[e] = LF }
         IN  IF lfs = {} THEN 0
             ELSE CHOOSE e \in lfs : \A f \in lfs : f <= e

\* re.sub(r'\n\s*\n+', '\n', s)
RECURSIVE Collapse(_, _)
Collapse(s, pos) ==
    IF pos > Len(s) THEN << >>
    ELSE LET e == BlankEnd(s, pos) IN
         IF e = 0 THEN <<s[pos]>> \o Collapse(s, pos + 1)
         ELSE <<LF>> \o Collapse(s, e + 1)

clean_menu_text(text) == Strip(Collapse(RemoveAll(text, 1), 1))

(***************************************************************************)
(* Literals of menu_scraper.py                                             *)
(***************************************************************************)
NoMenu       == <<"me", "nyu", SP, "eops", "eum">>            \* 메뉴 없음
LookupFailed == <<"me", "nyu", SP, "jo", "hoe", SP, "sil", "pae">>
                                                             \* 메뉴 조회 실패
NoMenuInfo   == <<"me", "nyu", SP, "jeong", "bo", SP, "eops", "eum">>
                                                             \* 메뉴 정보 없음
Lunch        == <<"jeom", "sim">>                             \* 점심
Dinner       == <<"jeo", "nyeok">>                            \* 저녁
\* 메뉴 조회 중 오류가 발생했습니다
ErrorPhrase  == <<"me", "nyu", SP, "jo", "hoe", SP, "jung", SP, "o", "ryu",
                  "ga", SP, "bal", "saeng", "haess", "seup", "ni", "da">>
\* " 아주대 식당 메뉴 ("
HeaderOpen   == <<SP, "a", "ju", "dae", SP, "sik", "dang", SP, "me", "nyu",
                  SP, "(">>
\* " 맛있게 드세요!"
SignOff      == <<SP, "mas", "iss", "ge", SP, "deu", "se", "yo", "!">>
Bullet       == <<"BULLET", SP>>                              \* "• "
RuleWidth    == 20

\* the configured sources, in order: 기숙사식당 63, 교직원식당 221904
restaurants ==
    << [name |-> <<"gi", "suk", "sa", "sik", "dang">>, articleNo |-> "63"],
       [name |-> <<"gyo", "jik", "won", "sik", "dang">>,
        articleNo |-> "221904"] >>
Sources == 1..Len(restaurants)

\* the meals extracted, in order
meal_types == << [meal_type |-> "lunch", meal_name |-> Lunch],
                 [meal_type |-> "dinner", meal_name |-> Dinner] >>

(***************************************************************************)
(* The upstream page of one source, as the GET and the parser deliver it   *)
(***************************************************************************)
Absent     == [present |-> FALSE, text |-> << >>]
Section(t) == [present |-> TRUE, text |-> t]

\* 제육볶음 / 비빔밥
PageA == [lunch  |-> Section(<<"je", "yuk", "bokk", "eum">>),
          dinner |-> Section(<<"bi", "bim", "bap">>)]
\* no lunch section / "[휴무 안내] 오늘은 휴무입니다\n김치찌개\n밥"
PageB == [lunch  |-> Absent,
          dinner |-> Section(<<"[", "hyu", "mu", SP, "an", "nae", "]", SP,
                               "o", "neul", "eun", SP, "hyu", "mu", "ip",
                               "ni", "da", LF,
                               "gim", "chi", "jji", "gae", LF, "bap">>)]
NoPage == [lunch |-> Absent, dinner |-> Absent]

\* get: what requests.get / raise_for_status do; extract: whether the
\* extraction of a section raises
Upstreams ==
    { [get |-> "200", extract |-> "ok", page |-> PageA],
      [get |-> "200", extract |-> "ok", page |-> PageB],
      [get |-> "200", extract |-> "RecursionError", page |-> PageA],
      [get |-> "HTTPError", extract |-> "ok", page |-> NoPage],
      [get |-> "ConnectionError", extract |-> "ok", page |-> NoPage] }

Failing(u) == u.get /= "200" \/ u.extract /= "ok"

\* a value or the exception raised in its place
Value(v)  == [exc |-> "none", value |-> v]
Raise(e)  == [exc |-> e, value |-> << >>]

\* fetch_restaurant_menu: one GET, raise_for_status, parse
fetch_restaurant_menu(u) ==
    IF u.get /= "200" THEN Raise(u.get) ELSE Value(u.page)

\* extract_meal_menu(soup, meal_type)
extract_meal_menu(u, soup, meal_type) ==
    IF u.extract /= "ok" THEN Raise(u.extract)
    ELSE IF soup[meal_type].present
         THEN Value(clean_menu_text(soup[meal_type].text))
         ELSE Value(NoMenu)

\* a dict as the sequence of its items in insertion order
RECURSIVE DictPut(_, _, _)
DictPut(d, k, v) ==
    IF d = << >> THEN << [k |-> k, v |-> v] >>
    ELSE IF Head(d).k = k THEN << [k |-> k, v |-> v] >> \o Tail(d)
    ELSE << Head(d) >> \o DictPut(Tail(d), k, v)

RECURSIVE dict(_)
dict(pairs) ==
    IF pairs = << >> THEN << >>
    ELSE LET p == pairs[Len(pairs)] IN
         DictPut(dict(SubSeq(pairs, 1, Len(pairs) - 1)), p.k, p.v)

DictHas(d, k) == \E i \in 1..Len(d) : d[i].k = k
DictGet(d, k) == d[CHOOSE i \in 1..Len(d) : d[i].k = k].v

\* lines 57-63: the body of the try in get_restaurant_meals
RECURSIVE extract_all(_, _, _, _)
extract_all(u, soup, i, meals) ==
    IF i > Len(meal_types) THEN Value(meals)
    ELSE LET m == extract_meal_menu(u, soup, meal_types[i].meal_type) IN
         IF m.exc /= "none" THEN Raise(m.exc)
         ELSE extract_all(u, soup, i + 1,
                          DictPut(meals, meal_types[i].meal_name, m.value))

meals_body(u) ==
    LET soup == fetch_restaurant_menu(u) IN
    IF soup.exc /= "none" THEN Raise(soup.exc)
    ELSE extract_all(u, soup.value, 1, << >>)

\* variant: a failed lookup reported with the no-menu phrase
FailedMeals_nomenu == << [k |-> Lunch, v |-> NoMenu],
                         [k |-> Dinner, v |-> NoMenu] >>

\* line 66: the meals returned by the except
FailedMeals == << [k |-> Lunch, v |-> LookupFailed],
                  [k |-> Dinner, v |-> LookupFailed] >>

\* variant: the except returns the name with an empty map
get_restaurant_meals_empty(info, u) ==
    LET r == meals_body(u) IN
    IF r.exc /= "none"
    THEN Value([k |-> info.name, v |-> << >>])
    ELSE Value([k |-> info.name, v |-> r.value])

\* variant: no except around the fetch and the extraction
get_restaurant_meals_noexcept(info, u) ==
    LET r == meals_body(u) IN
    IF r.exc /= "none"
    THEN Raise(r.exc)
    ELSE Value([k |-> info.name, v |-> r.value])

\* get_restaurant_meals((name, articleNo)): (name, meals), with the except
\* of line 64 turning any exception into the fixed map
get_restaurant_meals(info, u) ==
    LET r == meals_body(u) IN
    IF r.exc /= "none"
    THEN Value([k |-> info.name, v |-> FailedMeals])
    ELSE Value([k |-> info.name, v |-> r.value])

(***************************************************************************)
(* format_menu_for_kakao                                                   *)
(***************************************************************************)
\* datetime.now().strftime("%Y-%m-%d") at the time of the call
Today == <<"2", "0", "2", "5", "-", "0", "9", "-", "1", "1">>

None      == [none |-> TRUE, s |-> << >>]
Str(s)    == [none |-> FALSE, s |-> s]
\* the date arguments tried: None, "", "2025-09-10", "x"
DateArgs  == { None, Str(<< >>),
               Str(<<"2", "0", "2", "5", "-", "0", "9", "-", "1", "0">>),
               Str(<<"x">>) }

\* lines 81-82: if not date_str: date_str = today
EffectiveDate(d) == IF d.none \/ d.s = << >> THEN Today ELSE d.s

\* variant: every item is kept, whatever its length
SelectLongItems_all(items) ==
    [k \in 1..Len(items) |-> Bullet \o items[k]]

RECURSIVE SelectLongItems(_)
\* lines 99-101: the items longer than one character, bulleted
SelectLongItems(items) ==
    IF items = << >> THEN << >>
    ELSE (IF Len(Head(items)) > 1 THEN << Bullet \o Head(items) >>
          ELSE << >>) \o SelectLongItems(Tail(items))

RECURSIVE StripNonEmpty(_)
\* line 97: [item.strip() for item in ... if item.strip()]
StripNonEmpty(lines) ==
    IF lines = << >> THEN << >>
    ELSE (IF Strip(Head(lines)) /= << >> THEN << Strip(Head(lines)) >>
          ELSE << >>) \o StripNonEmpty(Tail(lines))

\* lines 95-108: the text of one (source, meal) cell
format_cell(menu) ==
    IF menu /= << >> /\ menu /= NoMenu
    THEN LET formatted_items ==
                 SelectLongItems(StripNonEmpty(Split(menu, LF)))
         IN  IF formatted_items /= << >>
             THEN Join(formatted_items, <<LF>>)
             ELSE NoMenuInfo
    ELSE NoMenu

\* lines 93-109
RECURSIVE format_meals(_)
format_meals(meals) ==
    IF meals = << >> THEN << >>
    ELSE <<SP>> \o Head(meals).k \o <<LF>>
            \o format_cell(Head(meals).v) \o <<LF, LF>>
            \o format_meals(Tail(meals))

\* lines 89-111
RECURSIVE format_restaurants(_)
format_restaurants(menus) ==
    IF menus = << >> THEN << >>
    ELSE <<SP>> \o Head(menus).k \o <<LF>>
            \o Repeat("BOX", RuleWidth) \o <<LF>>
            \o format_meals(Head(menus).v) \o <<LF>>
            \o format_restaurants(Tail(menus))

\* lines 87-114: the digest
format_message(d, menus) ==
    HeaderOpen \o d \o <<")", LF, LF>> \o format_restaurants(menus) \o SignOff

\* str(e) of the exceptions that occur
ExcText(e) ==
    CASE e = "RuntimeError" ->
            <<"c", "a", "n", "'", "t", SP, "s", "t", "a", "r", "t", SP,
              "n", "e", "w", SP, "t", "h", "r", "e", "a", "d">>
      [] e = "MemoryError" -> << >>
      [] OTHER -> <<"e", "r", "r", "o", "r">>

\* variant: the except returns str(e) alone
format_error_bare(e) == ExcText(e)

\* line 117: the text returned by the except of format_menu_for_kakao
format_error(e) == <<SP>> \o ErrorPhrase \o <<":", SP>> \o ExcText(e)

\* lines 85-114: the body of the try, once fetch_ajou_meals is over
format_try(d, menus, esc) ==
    IF esc /= "none" THEN Raise(esc) ELSE Value(format_message(d, menus))

\* lines 116-117: except Exception turns any exception into the error text
format_except(r) ==
    IF r.exc /= "none" THEN Value(format_error(r.exc)) ELSE r

\* what starting the worker threads of the pool does
PoolOutcomes == {"ok", "RuntimeError", "MemoryError"}

(***************************************************************************)
(* One call of format_menu_for_kakao, step by step                         *)
(***************************************************************************)
NoResult == Raise("pending")
NoPrev   == [date |-> << >>, out |-> NoResult, escaped |-> "none",
             order |-> << >>]

\* ThreadPoolExecutor(max_workers=2)
max_workers == 2

\* variant: the pool runs one task at a time
CanStart_serial(i) == \A k \in Sources : task[k] /= "fetched"

\* a worker is free to start the task of source i
CanStart(i) ==
    Cardinality({ k \in Sources : task[k] = "fetched" }) < max_workers

MenuIdle(ups) ==
    /\ fmt_pc = "idle"
    /\ date_str = << >>
    /\ upstream = ups
    /\ task = [i \in Sources |-> "idle"]
    /\ gets = [i \in Sources |-> 0]
    /\ results = [i \in Sources |-> NoResult]
    /\ all_menus = << >>
    /\ escaped = "none"
    /\ message = NoResult
    /\ done_order = << >>
    /\ prev = NoPrev

\* the caller enters format_menu_for_kakao(d)
fmt_call(d) ==
    /\ fmt_pc \in {"idle", "returned"}
    /\ fmt_pc' = "entered"
    /\ date_str' = EffectiveDate(d)
    /\ task' = [i \in Sources |-> "idle"]
    /\ gets' = [i \in Sources |-> 0]
    /\ results' = [i \in Sources |-> NoResult]
    /\ all_menus' = << >>
    /\ escaped' = "none"
    /\ message' = NoResult
    /\ done_order' = << >>
    /\ prev' = IF fmt_pc = "returned"
               THEN [date |-> date_str, out |-> message, escaped |-> escaped,
                     order |-> done_order]
               ELSE prev
    /\ UNCHANGED upstream

\* lines 74-75: the pool is created and executor.map submits one task per
\* source; a thread that cannot be started raises out of fetch_ajou_meals
pool_map(outcome) ==
    /\ fmt_pc = "entered"
    /\ IF outcome = "ok"
       THEN /\ task' = [i \in Sources |-> "queued"]
            /\ fmt_pc' = "mapping"
            /\ UNCHANGED escaped
       ELSE /\ escaped' = outcome
            /\ fmt_pc' = "raised"
            /\ UNCHANGED task
    /\ UNCHANGED <<date_str, upstream, gets, results, all_menus, message,
                   done_order, prev>>

\* a worker issues the GET of its source (line 14)
task_get(i) ==
    /\ fmt_pc = "mapping"
    /\ task[i] = "queued"
    /\ CanStart(i)
    /\ task' = [task EXCEPT ![i] = "fetched"]
    /\ gets' = [gets EXCEPT ![i] = @ + 1]
    /\ UNCHANGED <<fmt_pc, date_str, upstream, results, all_menus, escaped,
                   message, done_order, prev>>

\* variant: a source whose lookup failed is queued again
task_done_retry(i) ==
    /\ fmt_pc = "mapping"
    /\ task[i] = "fetched"
    /\ task' = [task EXCEPT
                  ![i] = IF Failing(upstream[i]) THEN "queued" ELSE "done"]
    /\ results' = [results EXCEPT
                     ![i] = IF Failing(upstream[i]) THEN @
                            ELSE get_restaurant_meals(restaurants[i],
                                                      upstream[i])]
    /\ done_order' = IF Failing(upstream[i]) THEN done_order
                     ELSE Append(done_order, i)
    /\ UNCHANGED <<fmt_pc, date_str, upstream, gets, all_menus, escaped,
                   message, prev>>

\* a worker finishes get_restaurant_meals for its source
task_done(i) ==
    /\ fmt_pc = "mapping"
    /\ task[i] = "fetched"
    /\ task' = [task EXCEPT ![i] = "done"]
    /\ results' = [results EXCEPT
                     ![i] = get_restaurant_meals(restaurants[i], upstream[i])]
    /\ done_order' = Append(done_order, i)
    /\ UNCHANGED <<fmt_pc, date_str, upstream, gets, all_menus, escaped,
                   message, prev>>

\* index of the first source whose task raised, 0 when none did
FirstRaised(res) ==
    IF \E i \in Sources : res[i].exc /= "none"
    THEN CHOOSE i \in Sources :
            res[i].exc /= "none" /\ \A k \in 1..(i - 1) : res[k].exc = "none"
    ELSE 0

\* variant: the results in the order in which the tasks finished
map_results_as_completed(res, order) ==
    [i \in Sources |-> res[order[i]].value]

\* line 75: executor.map yields the results in the order of its inputs
map_results(res, order) == [i \in Sources |-> res[i].value]

\* lines 75-77: list(executor.map(...)) yields the results in the order of
\* the sources once every task is over, re-raising a task's exception;
\* leaving the with block joins the workers; dict(results)
join ==
    /\ fmt_pc = "mapping"
    /\ \A i \in Sources : task[i] = "done"
    /\ IF FirstRaised(results) /= 0
       THEN /\ escaped' = results[FirstRaised(results)].exc
            /\ fmt_pc' = "raised"
            /\ UNCHANGED all_menus
       ELSE /\ all_menus' = dict(map_results(results, done_order))
            /\ fmt_pc' = "joined"
            /\ UNCHANGED escaped
    /\ UNCHANGED <<date_str, upstream, task, gets, results, message,
                   done_order, prev>>

\* lines 87-117: the digest, or the error text of the except
fmt_return ==
    /\ fmt_pc \in {"joined", "raised"}
    /\ message' = format_except(format_try(date_str, all_menus, escaped))
    /\ fmt_pc' = "returned"
    /\ UNCHANGED <<date_str, upstream, task, gets, results, all_menus,
                   escaped, done_order, prev>>

(***************************************************************************)
(* One section text, from the page to its cell of the digest               *)
(***************************************************************************)
\* number of pieces a generated raw text is made of, at most
MaxPieces == 4

\* the pieces raw texts are made of: literals of the patterns with two
\* literals ([ 안내], - 운영, ★ ★) and with one (※), the two white-space
\* characters, and items of one (밥) and two (김치) characters
Pieces ==
    { <<"[">>, <<"an", "nae", "]">>, <<"-">>, <<"un", "yeong">>,
      <<"REF">>, <<"STAR">>, <<LF>>, <<SP>>, <<"bap">>, <<"gim", "chi">> }

RECURSIVE Flatten(_)
Flatten(ps) == IF ps = << >> THEN << >> ELSE Head(ps) \o Flatten(Tail(ps))

\* "[휴무 안내] 오늘은 휴무입니다\n김치찌개\n밥"
NoticeSample == PageB.dinner.text

\* "치킨-마요\n김치\n*조식 운영 안함"
HyphenSample ==
    <<"chi", "kin", "-", "ma", "yo", LF, "gim", "chi", LF,
      "*", "jo", "sik", SP, "un", "yeong", SP, "an", "ham">>

\* "밥\n<5000원> 특식\n후식음료: 커피"
PriceSample ==
    <<"bap", LF, "<", "5", "0", "0", "0", "won", ">", SP, "teuk", "sik", LF,
      "hu", "sik", "eum", "ryo", ":", SP, "keo", "pi">>

\* "★특식-김치★\n-조식 운영 안함"
StarSample ==
    <<"STAR", "teuk", "sik", "-", "gim", "chi", "STAR", LF,
      "-", "jo", "sik", SP, "un", "yeong", SP, "an", "ham">>

\* the texts handed to clean_menu_text
RawTexts ==
    { Flatten(ps) : ps \in UNION { [1..n -> Pieces] : n \in 0..MaxPieces } }
        \cup { NoticeSample, HyphenSample, PriceSample, StarSample }

\* where the text of a cell comes from: the section of the page (line 47),
\* no section on the page (line 48), a failed lookup (line 66)
CellKinds == {"section", "absent", "failed"}

\* line 47: clean_menu_text(raw_text)
text_clean ==
    /\ text_pc = "raw"
    /\ cleaned' = clean_menu_text(raw)
    /\ text_pc' = "cleaned"
    /\ UNCHANGED <<raw, cell_in, cell_out>>

\* lines 95-108 applied to the cell
text_render(kind) ==
    /\ text_pc = "cleaned"
    /\ cell_in' = CASE kind = "section" -> cleaned
                    [] kind = "absent" -> NoMenu
                    [] kind = "failed" -> LookupFailed
    /\ cell_out' = format_cell(cell_in')
    /\ text_pc' = "rendered"
    /\ UNCHANGED <<raw, cleaned>>

(***************************************************************************)
(* Specifications                                                          *)
(***************************************************************************)
\* no text is being normalised
TextIdle ==
    /\ text_pc = "raw"
    /\ raw = << >>
    /\ cleaned = << >>
    /\ cell_in = << >>
    /\ cell_out = << >>

\* the scheduler, with no menu call in progress
Init ==
    /\ SchedInit
    /\ MenuIdle([i \in Sources |-> [get |-> "200", extract |-> "ok",
                                    page |-> PageA]])
    /\ TextIdle

Next ==
    \/ (start /\ UNCHANGED <<menuVars, textVars>>)
    \/ (stop /\ UNCHANGED <<menuVars, textVars>>)
    \/ \E h \in ArgHours, m \in ArgMinutes :
            update_schedule_remove(h, m) /\ UNCHANGED <<menuVars, textVars>>
    \/ (update_schedule_add /\ UNCHANGED <<menuVars, textVars>>)
    \/ \E o \in RunOutcomes :
            send_test_menu(o.token, o.post)
                /\ UNCHANGED <<menuVars, textVars>>
    \/ (process_jobs /\ UNCHANGED <<menuVars, textVars>>)
    \/ \E o \in RunOutcomes :
            run_job(o.token, o.post) /\ UNCHANGED <<menuVars, textVars>>
    \/ \E t \in ClockInstants : clock(t) /\ UNCHANGED <<menuVars, textVars>>

Spec == Init /\ [][Next]_vars

\* one process calling format_menu_for_kakao against a fixed upstream
MenuInit ==
    /\ SchedInit
    /\ \E ups \in [Sources -> Upstreams] : MenuIdle(ups)
    /\ TextIdle

MenuNext ==
    \/ \E d \in DateArgs : fmt_call(d) /\ UNCHANGED <<schedVars, textVars>>
    \/ \E o \in PoolOutcomes : pool_map(o) /\ UNCHANGED <<schedVars, textVars>>
    \/ \E i \in Sources : task_get(i) /\ UNCHANGED <<schedVars, textVars>>
    \/ \E i \in Sources : task_done(i) /\ UNCHANGED <<schedVars, textVars>>
    \/ (join /\ UNCHANGED <<schedVars, textVars>>)
    \/ (fmt_return /\ UNCHANGED <<schedVars, textVars>>)

MenuSpec == MenuInit /\ [][MenuNext]_vars

\* one section text taken through clean_menu_text and the formatter
TextInit ==
    /\ SchedInit
    /\ hour = 12
    /\ \A t \in StartInstants : now <= t
    /\ MenuIdle([i \in Sources |-> [get |-> "200", extract |-> "ok",
                                    page |-> PageA]])
    /\ text_pc = "raw"
    /\ raw \in RawTexts
    /\ cleaned = << >>
    /\ cell_in = << >>
    /\ cell_out = << >>

TextNext ==
    \/ (text_clean /\ UNCHANGED <<schedVars, menuVars>>)
    \/ \E kind \in CellKinds :
            text_render(kind) /\ UNCHANGED <<schedVars, menuVars>>

TextSpec == TextInit /\ [][TextNext]_vars

(***************************************************************************)
(* Properties of the aggregation and the formatter (MenuSpec)              *)
(***************************************************************************)
\* every task of the current call is over
AllTasksOver == \A i \in Sources : task[i] = "done"

\* C1: whatever each source's fetch and extraction do, fetch_ajou_meals
\* returns a mapping with exactly one entry per configured source, in the
\* configured order, each with an entry for lunch and one for dinner; no
\* combination of per-source failures makes it return fewer entries or none.
C1_OneEntryPerSource ==
    /\ (AllTasksOver /\ fmt_pc /= "mapping") => fmt_pc \in {"joined", "returned"}
    /\ fmt_pc = "joined" =>
          /\ Len(all_menus) = Len(restaurants)
          /\ \A i \in Sources :
                /\ all_menus[i].k = restaurants[i].name
                /\ DictHas(all_menus[i].v, Lunch)
                /\ DictHas(all_menus[i].v, Dinner)
                /\ Len(all_menus[i].v) = 2

\* every source failed and fetch_ajou_meals has returned
C1_Witness_AllFail ==
    /\ fmt_pc = "joined"
    /\ \A i \in Sources : Failing(upstream[i])
    /\ Len(all_menus) = 2

\* what the fetch and the extraction of one healthy source produce
OwnMeals(u) ==
    << [k |-> Lunch,  v |-> extract_meal_menu(u, u.page, "lunch").value],
       [k |-> Dinner, v |-> extract_meal_menu(u, u.page, "dinner").value] >>

\* C2: a source whose fetch or extraction raises gets the fixed map
\* {lunch: lookup failed, dinner: lookup failed}; no such exception leaves
\* fetch_ajou_meals; every other source's entry is what its own fetch and
\* extraction produced.
C2_FailureIsLocal ==
    /\ fmt_pc = "raised" => escaped \in (PoolOutcomes \ {"ok"})
    /\ fmt_pc = "joined" =>
          \A i \in Sources :
             /\ DictHas(all_menus, restaurants[i].name)
             /\ DictGet(all_menus, restaurants[i].name) =
                   IF Failing(upstream[i]) THEN FailedMeals
                   ELSE OwnMeals(upstream[i])

\* one source delivered {lunch: 제육볶음, dinner: 비빔밥}, the other raised
C2_Witness_OneFails ==
    /\ fmt_pc = "joined"
    /\ \E i, j \in Sources :
          /\ Failing(upstream[i])
          /\ DictGet(all_menus, restaurants[i].name) = FailedMeals
          /\ DictGet(all_menus, restaurants[j].name) =
                << [k |-> Lunch,  v |-> <<"je", "yuk", "bokk", "eum">>],
                   [k |-> Dinner, v |-> <<"bi", "bim", "bap">>] >>

\* C3: format_menu_for_kakao returns a string for every date argument and
\* every outcome of the chain; when an exception occurred inside the chain
\* the string is non-empty and contains the error phrase.
C3_FormatIsTotal ==
    fmt_pc = "returned" =>
       /\ message.exc = "none"
       /\ message.value /= << >>
       /\ escaped /= "none" => Contains(message.value, ErrorPhrase)

\* an exception with an empty text occurred inside the chain
C3_Witness_Error ==
    /\ fmt_pc = "returned"
    /\ escaped = "MemoryError"
    /\ Contains(message.value, ErrorPhrase)

(***************************************************************************)
(* Properties of the scheduler (Spec)                                      *)
(***************************************************************************)
RegisteredTriggers == Triggers(pending_jobs, jobstore)

\* the state a call of update_schedule found: the snapshot taken when the
\* call removed the old job, or the current state when it has not yet
BeforeCall ==
    IF pc = "removed" THEN upd.pre
    ELSE [hour |-> hour, minute |-> minute, triggers |-> RegisteredTriggers]

\* C4: update_schedule is replace-or-nothing: when it returns False the
\* registered trigger and the stored hour and minute are what they were
\* before the call; when it returns True the registered trigger is the new
\* one.
C4_ReplaceOrNothing ==
    [][ /\ ret' = "False" =>
             /\ RegisteredTriggers' = BeforeCall.triggers
             /\ hour' = BeforeCall.hour
             /\ minute' = BeforeCall.minute
        /\ (pc = "removed" /\ ret' = "True") =>
             RegisteredTriggers' = {[hour |-> upd.hour, minute |-> upd.minute]}
      ]_vars

\* a scheduled run ends
JobRunEnds == instances' < instances

\* C5: a scheduled firing on a running scheduler with no .access_token file
\* ends without raising and without a delivery POST, and the scheduler is
\* still running afterwards.
C5_NoCredentialIsSkipped ==
    [][ (JobRunEnds /\ last_run'.token = "FileNotFoundError" /\ is_running) =>
            /\ last_run'.raised = "none"
            /\ ~last_run'.posted
            /\ is_running'
      ]_vars

\* a scheduled run without credential has ended on a running scheduler
C5_Witness_Skipped ==
    /\ running
    /\ last_run.via = "job"
    /\ last_run.token = "FileNotFoundError"
    /\ last_run.log = "warning: no access token"

DeliveryErrors == {"401", "ConnectionError", "JSONDecodeError"}

\* C6: when the delivery call of a firing errors, the error is caught inside
\* _send_daily_menu, the running state, the stored hour and minute and the
\* registered trigger are unchanged, the executor slot is free again, and the
\* job stays due at the next instant of its time-of-day (now itself only
\* when that firing is still to be processed).
C6_DeliveryErrorIsContained ==
    [][ (JobRunEnds /\ last_run'.post \in DeliveryErrors) =>
            /\ last_run'.raised = "none"
            /\ last_run'.posted
            /\ UNCHANGED <<running, hour, minute, pending_jobs, jobstore>>
            /\ instances' = 0
            /\ running =>
                 \A j \in jobstore' :
                    /\ j.next_run_time >= now'
                    /\ j.next_run_time \in
                          { get_next_fire_time(j.hour, j.minute, now'),
                            get_next_fire_time(j.hour, j.minute, now' + 1) }
      ]_vars

\* the firing after one whose delivery failed has been submitted
C6_Witness_NextFiring ==
    /\ running
    /\ fired >= 2
    /\ instances = 1
    /\ last_run.via = "job"
    /\ last_run.post = "JSONDecodeError"

\* C7: the scheduler starts Stopped; start() leaves it Running and is not an
\* error when it already runs; stop() leaves it Stopped and is not an error
\* when it is already stopped; update_schedule does not change the state;
\* is_running() is true exactly in the Running state.
C7_TwoStates ==
    /\ ~is_running
    /\ [][ /\ start => (running' /\ ret' = "None")
           /\ stop => (~running' /\ ret' = "None")
           /\ (update_schedule_add \/ \E h \in ArgHours, m \in ArgMinutes :
                   update_schedule_remove(h, m)) => running' = running
           /\ is_running' = running'
         ]_vars

\* the scheduler has been started and stopped again
C7_Witness_StoppedAgain ==
    /\ ~running
    /\ pending_jobs = << >>
    /\ ret = "None"

\* C8: at most one trigger is registered at any instant, pending ones
\* included, and only under the id 'daily_menu_notification'.
C8_AtMostOneTrigger ==
    /\ TriggerCount <= 1
    /\ \A j \in jobstore : j.id = JobId
    /\ \A i \in 1..Len(pending_jobs) : pending_jobs[i].id = JobId

\* update_schedule has replaced the trigger of a stopped scheduler
C8_Witness_Replaced ==
    /\ ~running
    /\ ret = "True"
    /\ TriggerCount = 1
    /\ upd /= NoCall

\* C9: whenever the scheduler is Running after any sequence of start and
\* stop calls, exactly one daily trigger is registered, at the configured
\* hour and minute.
C9_Restartable ==
    (running /\ upd = NoCall) =>
        /\ TriggerCount = 1
        /\ RegisteredTriggers = {[hour |-> hour, minute |-> minute]}

\* C10: after a successful update_schedule(h, m), get_next_run_time() is
\* the first h:m instant strictly later than now.
C10_NextFireAfterUpdate ==
    [][ (pc = "removed" /\ ret' = "True") =>
            get_next_run_time' =
                [kind |-> "time",
                 t |-> get_next_fire_time(upd.hour, upd.minute, now + 1)]
      ]_vars

\* C17: update_schedule(h, m) with a valid time of day succeeds whether the
\* scheduler is Stopped or Running: the call gets past the removal of the
\* old job, returns True, leaves the Running/Stopped state as it was and
\* leaves exactly one trigger registered, at h:m.
C17_ValidUpdateSucceeds ==
    [][ /\ (\E h \in ArgHours, m \in ArgMinutes :
                /\ ~CronTriggerRaises(h, m)
                /\ update_schedule_remove(h, m)) =>
             (pc' = "removed" /\ running' = running)
        /\ (update_schedule_add /\ ~CronTriggerRaises(upd.hour, upd.minute)) =>
             /\ ret' = "True"
             /\ running' = running
             /\ TriggerCount' = 1
             /\ RegisteredTriggers' =
                    {[hour |-> upd.hour, minute |-> upd.minute]}
      ]_vars

\* C18: the daily job fires only while the scheduler is Running (no
\* scheduled run is in progress once stop has returned), and while Running
\* it fires when the configured time of day arrives: a trigger at the
\* configured hour and minute is waiting for the next such instant.
C18_FiresWhileRunning ==
    /\ ~running => instances = 0
    /\ (running /\ pc = "idle") =>
            \E j \in jobstore :
                /\ j.hour = hour
                /\ j.minute = minute
                /\ j.next_run_time \in
                      { get_next_fire_time(hour, minute, now),
                        get_next_fire_time(hour, minute, now + 1) }

\* C22: in every state of a constructed scheduler the stored hour is in
\* 0..23 and the stored minute in 0..59, whatever NOTIFICATION_TIME was and
\* whatever update_schedule was called with
C22_StoredTimeIsValid ==
    /\ hour \in 0..23
    /\ minute \in 0..59

\* C23: whenever no call of update_schedule is under way, the trigger
\* registered under the job id is the one at the stored hour and minute; and
\* the stored hour and minute change only in update_schedule
C23_StoredTimeIsTriggerTime ==
    /\ RegisteredTriggers = {[hour |-> hour, minute |-> minute]}
    /\ [][ /\ pc' = "idle" =>
                 RegisteredTriggers' = {[hour |-> hour', minute |-> minute']}
           /\ (hour' /= hour \/ minute' /= minute) => update_schedule_add
         ]_vars

(***************************************************************************)
(* Repeated calls, ordering and the pool (MenuSpec)                        *)
(***************************************************************************)
\* both the call that has returned and the one before it ran their pool
BothCallsRan ==
    /\ fmt_pc = "returned"
    /\ prev /= NoPrev
    /\ escaped = "none"
    /\ prev.escaped = "none"

\* C11: two calls of format_menu_for_kakao with the same date against an
\* unchanged upstream return the same string, whatever the order in which
\* the tasks of either call finished (a call whose pool could not start its
\* threads returns the error text instead and is set aside)
C11_SameDateSameDigest ==
    (BothCallsRan /\ prev.date = date_str) => message = prev.out

\* the second of two calls with the same date has returned, its tasks having
\* finished in another order than those of the first, on different pages
C11_Witness_OtherOrder ==
    /\ BothCallsRan
    /\ prev.date = date_str
    /\ prev.order = <<1, 2>>
    /\ done_order = <<2, 1>>
    /\ upstream[1] /= upstream[2]
    /\ message = prev.out

\* a heading line of the digest: " 기숙사식당\n", " 점심\n"
Heading(name) == <<SP>> \o name \o <<LF>>

\* the headings occur in msg from pos on, one after the other
RECURSIVE InOrder(_, _, _)
InOrder(msg, pos, names) ==
    IF names = << >> THEN TRUE
    ELSE LET j == Find(msg, pos, Heading(Head(names))) IN
         /\ j /= 0
         /\ j <= Len(msg)
         /\ InOrder(msg, j + Len(Heading(Head(names))), Tail(names))

\* the headings of the digest in the configured order
ConfiguredHeadings ==
    << restaurants[1].name, Lunch, Dinner, restaurants[2].name, Lunch,
       Dinner >>

\* C14: whatever the order in which the fetches finish, the mapping lists
\* the sources in the configured order, each with lunch before dinner, and
\* the digest renders them in that order
C14_ConfiguredOrder ==
    /\ (fmt_pc \in {"joined", "returned"} /\ escaped = "none") =>
            /\ Len(all_menus) = Len(restaurants)
            /\ \A i \in Sources :
                    /\ all_menus[i].k = restaurants[i].name
                    /\ Len(all_menus[i].v) = 2
                    /\ all_menus[i].v[1].k = Lunch
                    /\ all_menus[i].v[2].k = Dinner
    /\ (fmt_pc = "returned" /\ escaped = "none") =>
            /\ InOrder(message.value, 1, ConfiguredHeadings)
            /\ ~InOrder(message.value, 1,
                        <<restaurants[2].name, restaurants[1].name>>)
            /\ ~InOrder(message.value, 1, <<Dinner, Lunch, Dinner, Lunch>>)

\* the digest has been returned after the second source finished first
C14_Witness_SecondFirst ==
    /\ fmt_pc = "returned"
    /\ escaped = "none"
    /\ done_order = <<2, 1>>
    /\ upstream[1] /= upstream[2]
    /\ InOrder(message.value, 1, ConfiguredHeadings)

\* C15: fetch_ajou_meals hands out its mapping only once every task is
\* over, so that nothing partial is ever seen; and while the fetches run, a
\* source that is still being fetched keeps no other source waiting: a task
\* not yet started always finds a free worker
C15_JoinBarrier ==
    /\ all_menus /= << >> =>
            /\ fmt_pc \in {"joined", "returned"}
            /\ AllTasksOver
            /\ Len(all_menus) = Len(restaurants)
            /\ \A i \in Sources : results[i] /= NoResult
    /\ (fmt_pc \in {"joined", "returned"} /\ escaped = "none") =>
            AllTasksOver
    /\ fmt_pc = "mapping" =>
            \A i \in Sources : task[i] = "queued" => CanStart(i)

\* the second source has finished while the first is still being fetched,
\* and nothing has been handed out
C15_Witness_SlowSource ==
    /\ fmt_pc = "mapping"
    /\ task[1] = "fetched"
    /\ task[2] = "done"
    /\ results[2] /= NoResult
    /\ all_menus = << >>

\* C16: in one call each source is fetched with exactly one GET: none
\* before its task starts, one from then on, whether the GET succeeds or
\* not, and one per source when the mapping is handed out
C16_OneGetPerSource ==
    /\ \A i \in Sources :
            /\ gets[i] <= 1
            /\ task[i] \in {"idle", "queued"} => gets[i] = 0
            /\ task[i] \in {"fetched", "done"} => gets[i] = 1
    /\ (fmt_pc \in {"joined", "returned"} /\ escaped = "none") =>
            \A i \in Sources : gets[i] = 1

\* the mapping has been handed out after the GET of the first source failed
C16_Witness_FailedOnce ==
    /\ fmt_pc = "joined"
    /\ upstream[1].get /= "200"
    /\ DictGet(all_menus, restaurants[1].name) = FailedMeals
    /\ gets = [i \in Sources |-> 1]

\* the text of the cell of source i and meal in the digest msg: what
\* stands between the heading of the meal, in the block of the source, and
\* the blank line that ends the cell
CellOf(msg, i, meal) ==
    LET b == Find(msg, 1, Heading(restaurants[i].name))
        h == Find(msg, b, Heading(meal))
        c == h + Len(Heading(meal))
        e == Find(msg, c, <<LF, LF>>)
    IN  SubSeq(msg, c, e - 1)

\* C20: in the digest a source whose lookup failed has "메뉴 조회 실패" in
\* both of its cells and never "메뉴 없음"; a section that is absent from a
\* page fetched successfully has "메뉴 없음" and never "메뉴 조회 실패"
C20_SentinelsDistinct ==
    (fmt_pc = "returned" /\ escaped = "none") =>
        \A i \in Sources, k \in 1..Len(meal_types) :
            LET cell == CellOf(message.value, i, meal_types[k].meal_name)
                u == upstream[i]
            IN  /\ Failing(u) =>
                    /\ cell = <<"BULLET", SP>> \o LookupFailed
                    /\ ~Contains(cell, NoMenu)
                /\ (~Failing(u) /\ ~u.page[meal_types[k].meal_type].present)
                    => /\ cell = NoMenu
                       /\ ~Contains(cell, LookupFailed)

\* a digest with a source whose GET failed next to a page without lunch
C20_Witness_BothSentinels ==
    /\ fmt_pc = "returned"
    /\ escaped = "none"
    /\ upstream[1].get = "HTTPError"
    /\ upstream[2].page = PageB
    /\ ~Failing(upstream[2])
    /\ Contains(CellOf(message.value, 1, Dinner), LookupFailed)
    /\ CellOf(message.value, 2, Lunch) = NoMenu

(***************************************************************************)
(* Properties of clean_menu_text and of the cells (TextSpec)               *)
(***************************************************************************)
\* the lines of a text
Lines(t) == Split(t, LF)

\* a line of the form "[... 안내] ..."
IsNoticeLine(line) ==
    \E i \in 1..Len(line), j \in 1..Len(line) :
        /\ i < j
        /\ StartsAt(line, i, <<"[">>)
        /\ StartsAt(line, j, <<"an", "nae", "]">>)

HasNoticeLine(t) == \E k \in 1..Len(Lines(t)) : IsNoticeLine(Lines(t)[k])

\* C12: the output of clean_menu_text has no line of the form
\* "[... 안내] ...", whatever the raw text; the three-line example
\* "[휴무 안내] 오늘은 휴무입니다", "김치찌개", "밥" becomes "김치찌개", "밥"
C12_NoNoticeLineLeft ==
    text_pc /= "raw" =>
        /\ ~HasNoticeLine(cleaned)
        /\ raw = NoticeSample =>
                cleaned = <<"gim", "chi", "jji", "gae", LF, "bap">>

\* a raw text with a notice line and an item line has been cleaned, and the
\* item is what is left
C12_Witness_NoticeRemoved ==
    /\ text_pc = "cleaned"
    /\ HasNoticeLine(raw)
    /\ raw /= NoticeSample
    /\ cleaned = <<"gim", "chi">>

\* a line that one of the noise rules matches
IsNoiseLine(line) ==
    \E k \in 1..Len(patterns_to_remove), i \in 1..Len(line) :
        MatchEnd(line, i, patterns_to_remove[k]) /= 0

RECURSIVE DropNoise(_)
DropNoise(lines) ==
    IF lines = << >> THEN << >>
    ELSE (IF IsNoiseLine(Head(lines)) THEN << >> ELSE << Head(lines) >>)
            \o DropNoise(Tail(lines))

\* the non-blank lines of a text that no noise rule matches, trimmed
NonNoiseLines(t) == DropNoise(StripNonEmpty(Lines(t)))

\* a occurs in b as a subsequence
RECURSIVE IsSubseq(_, _)
IsSubseq(a, b) ==
    IF a = << >> THEN TRUE
    ELSE IF b = << >> THEN FALSE
    ELSE IF Head(a) = Head(b) THEN IsSubseq(Tail(a), Tail(b))
    ELSE IsSubseq(a, Tail(b))

\* C13: every line of the raw text that matches none of the noise rules
\* appears in the output of clean_menu_text, and these lines appear there in
\* the order they have in the input
C13_NonNoiseLinesKept ==
    text_pc /= "raw" =>
        IsSubseq(NonNoiseLines(raw), StripNonEmpty(Lines(cleaned)))

\* the lines of a cell text that are longer than one character once trimmed
RECURSIVE ItemLines(_)
ItemLines(lines) ==
    IF lines = << >> THEN << >>
    ELSE (IF Len(Strip(Head(lines))) > 1 THEN << Strip(Head(lines)) >>
          ELSE << >>) \o ItemLines(Tail(lines))

\* C19: a cell whose text is empty or is "메뉴 없음" is rendered as
\* "메뉴 없음"; any other cell as one line "• item" per line of the text that
\* is longer than one character once trimmed, in the order of the text; and
\* as "메뉴 정보 없음" when the text has no such line
C19_CellRendering ==
    text_pc = "rendered" =>
        IF cell_in = << >> \/ cell_in = NoMenu
        THEN cell_out = NoMenu
        ELSE LET items == ItemLines(Lines(cell_in)) IN
             IF items = << >>
             THEN cell_out = NoMenuInfo
             ELSE /\ Len(Lines(cell_out)) = Len(items)
                  /\ \A k \in 1..Len(items) :
                        Lines(cell_out)[k] = <<"BULLET", SP>> \o items[k]

\* a cell with an item of one character before an item of two has been
\* rendered as the single bullet of the second
C19_Witness_ShortDropped ==
    /\ text_pc = "rendered"
    /\ cell_in = <<"bap", LF, "gim", "chi">>
    /\ cell_out = <<"BULLET", SP, "gim", "chi">>

\* a line that is blank, or that a noise rule matches from its first
\* character that is not white space to its end
IsWhollyNoise(line) ==
    \/ Strip(line) = << >>
    \/ \E k \in 1..Len(patterns_to_remove) :
            MatchEnd(Strip(line), 1, patterns_to_remove[k]) /= 0

\* every line of the text is noise
AllNoise(t) == \A k \in 1..Len(Lines(t)) : IsWhollyNoise(Lines(t)[k])

\* C21: the output of clean_menu_text has no blank line and neither starts
\* nor ends with white space; and it is the empty string when every line of
\* the raw text is noise
C21_NoBlankLineEmptyOnNoise ==
    text_pc /= "raw" =>
        /\ cleaned /= << >> =>
                /\ \A k \in 1..Len(Lines(cleaned)) :
                        \E c \in 1..Len(Lines(cleaned)[k]) :
                            ~IsSpace(Lines(cleaned)[k][c])
                /\ ~IsSpace(cleaned[1])
                /\ ~IsSpace(cleaned[Len(cleaned)])
        /\ AllNoise(raw) => cleaned = << >>

====
